---- MODULE Spec2Model ----
(***************************************************************************)
(* Credential storage of the pscale CLI (internal/config): the access      *)
(* token lives in the OS keyring when one is available and in the file     *)
(* <ConfigDir>/access-token otherwise; a read migrates a token found in    *)
(* the file into the keyring.                                              *)
(*                                                                         *)
(* One action is one call of an exported operation (one CLI invocation).   *)
(* The host (keyring, file system) is the state; the results of the system *)
(* calls that can fail are inputs of the action: `fault` names the one     *)
(* call that fails in this invocation (every failure except a failed chmod *)
(* ends the operation, so at most one can be observed), `chmodFails` is    *)
(* the failure of os.Chmod, which the code logs and ignores.               *)
(***************************************************************************)
EXTENDS Integers, Sequences, FiniteSets, TLC

VARIABLES
    backend,     \* what keyring.Open answers on this host
    ring,        \* the keyring item stored under keyringKey
    tokenFile,   \* the file <ConfigDir>/access-token
    configDir,   \* the directory ~/.config/planetscale
    configFile,  \* whether <ConfigDir>/pscale.yml exists
    last,        \* the last invocation: operation, inputs, result
    written      \* history: the secret of the last successful write

vars == <<backend, ring, tokenFile, configDir, configFile, last, written>>

----------------------------------------------------------------------------
(* Bounds *)

MaxTokenLen == 1

\* a secret is a byte string; two byte values are enough to tell secrets apart
Bytes == {0, 1}

Tokens == UNION {[1..n -> Bytes] : n \in 0..MaxTokenLen}

----------------------------------------------------------------------------
(* Constants of the program *)

\* tokenFileMode = 0o600
tokenFileMode == 384

\* os.MkdirAll(configDir, 0771)
configDirMode == 505

\* permission bits a file can be found with: 0600 0644 0400 0000 0700
Modes == {384, 420, 256, 0, 448}

\* process umasks: 0022 0077
Umasks == {18, 63}

Backends == {"available", "unavailable", "broken"}

RECURSIVE AndNot(_, _)
\* Go's a &^ b on naturals
AndNot(a, b) ==
    IF a = 0 THEN 0
    ELSE (IF a % 2 = 1 /\ b % 2 = 0 THEN 1 ELSE 0) + 2 * AndNot(a \div 2, b \div 2)

NoItem == [has |-> FALSE, data |-> <<>>]
Item(d) == [has |-> TRUE, data |-> d]

NoFile == [exists |-> FALSE, mode |-> 0, data |-> <<>>]
File(m, d) == [exists |-> TRUE, mode |-> m, data |-> d]

NoDir == [exists |-> FALSE, mode |-> 0]
Dir(m) == [exists |-> TRUE, mode |-> m]

----------------------------------------------------------------------------
(* The fallback file: readAccessTokenPath, writeAccessTokenPath,           *)
(* deleteAccessTokenPath.  Each operator is the Go function: it takes the  *)
(* host state it touches and the failing call, and returns the function's  *)
(* results and the host state it leaves.  `hit` says the failing call was  *)
(* reached.                                                                *)

\* ConfigDir / accessTokenPath / DefaultConfigPath: homedir.Expand fails or not
ConfigDir(fault, point) == IF fault = point THEN "HomeDirErr" ELSE "nil"

\* os.Chmod(tokenPath, tokenFileMode) when stat.Mode()&^tokenFileMode != 0
chmodNeeded(f) == AndNot(f.mode, tokenFileMode) # 0

\* the file read that gives up when os.Chmod fails
readAccessTokenPath_abortsOnChmod(f, fault, chmodFails) ==
    LET base == [tok |-> <<>>, err |-> "nil", fatal |-> FALSE, file |-> f,
                 chmod |-> "none", statMode |-> {}, readMode |-> {},
                 hit |-> FALSE]
    IN
    IF ConfigDir(fault, "home") # "nil"
    THEN [base EXCEPT !.err = "HomeDirErr", !.hit = TRUE]
    ELSE IF fault = "stat"
    THEN [base EXCEPT !.err = "StatErr", !.fatal = TRUE, !.hit = TRUE]
    ELSE IF ~f.exists
    THEN [base EXCEPT !.err = "NotExist"]
    ELSE IF chmodNeeded(f) /\ chmodFails
    THEN [base EXCEPT !.err = "ChmodErr", !.chmod = "failed", !.statMode = {f.mode}]
    ELSE
        LET g == IF chmodNeeded(f) THEN File(tokenFileMode, f.data) ELSE f
            c == IF chmodNeeded(f) THEN "ok" ELSE "none"
            seen == [base EXCEPT !.file = g, !.chmod = c, !.statMode = {f.mode}]
        IN
        IF fault = "read"
        THEN [seen EXCEPT !.err = "ReadErr", !.fatal = TRUE, !.hit = TRUE]
        ELSE [seen EXCEPT !.tok = g.data, !.readMode = {g.mode}]

readAccessTokenPath(f, fault, chmodFails) ==
    LET base == [tok |-> <<>>, err |-> "nil", fatal |-> FALSE, file |-> f,
                 chmod |-> "none", statMode |-> {}, readMode |-> {},
                 hit |-> FALSE]
    IN
    IF ConfigDir(fault, "home") # "nil"
    THEN [base EXCEPT !.err = "HomeDirErr", !.hit = TRUE]
    ELSE IF fault = "stat"
    THEN \* !os.IsNotExist(err): log.Fatal(err)
         [base EXCEPT !.err = "StatErr", !.fatal = TRUE, !.hit = TRUE]
    ELSE IF ~f.exists
    THEN \* return nil, err
         [base EXCEPT !.err = "NotExist"]
    ELSE
        LET try == chmodNeeded(f)
            g == IF try /\ ~chmodFails THEN File(tokenFileMode, f.data) ELSE f
            c == IF ~try THEN "none" ELSE IF chmodFails THEN "failed" ELSE "ok"
            seen == [base EXCEPT !.file = g, !.chmod = c, !.statMode = {f.mode}]
        IN
        IF fault = "read"
        THEN \* ioutil.ReadFile fails: log.Fatal(err)
             [seen EXCEPT !.err = "ReadErr", !.fatal = TRUE, !.hit = TRUE]
        ELSE [seen EXCEPT !.tok = g.data, !.readMode = {g.mode}]

\* ioutil.WriteFile(tokenPath, tokenBytes, tokenFileMode): O_WRONLY|O_CREATE|O_TRUNC,
\* the mode is used only when the file is created, and the umask applies to it;
\* `partial` bytes reach the file when the write fails after the truncation
WriteFile(f, data, perm, umask, fault, partial) ==
    LET m == IF f.exists THEN f.mode ELSE AndNot(perm, umask)
    IN
    IF fault = "write" THEN [err |-> "WriteErr", file |-> f]
    ELSE IF fault = "writeTrunc"
    THEN [err |-> "WriteErr", file |-> File(m, SubSeq(data, 1, partial))]
    ELSE [err |-> "nil", file |-> File(m, data)]

writeAccessTokenPath(f, d, accessToken, fault, umask, partial) ==
    LET base == [err |-> "nil", file |-> f, dir |-> d, hit |-> TRUE]
    IN
    IF ConfigDir(fault, "home") # "nil"
    THEN [base EXCEPT !.err = "HomeDirErr"]
    ELSE IF fault = "statdir"
    THEN \* os.Stat(configDir) fails, not with NotExist: return err
         [base EXCEPT !.err = "StatDirErr"]
    ELSE IF ~d.exists /\ fault = "mkdir"
    THEN [base EXCEPT !.err = "MkdirErr"]
    ELSE
        LET e == IF d.exists THEN d ELSE Dir(AndNot(configDirMode, umask))
            made == [base EXCEPT !.dir = e]
        IN
        IF ConfigDir(fault, "home2") # "nil"
        THEN [made EXCEPT !.err = "HomeDirErr"]
        ELSE
            LET wr == WriteFile(f, accessToken, tokenFileMode, umask, fault, partial)
            IN [made EXCEPT !.err = wr.err, !.file = wr.file,
                            !.hit = (wr.err # "nil")]

\* the delete that goes on to the config file after the token file's removal failed
deleteAccessTokenPath_keepsGoing(f, c, fault) ==
    LET base == [err |-> "nil", file |-> f, cfg |-> c, hit |-> TRUE]
    IN
    IF ConfigDir(fault, "home") # "nil"
    THEN [base EXCEPT !.err = "HomeDirErr"]
    ELSE IF fault = "rmtoken"
    THEN [base EXCEPT !.err = "RemoveTokenErr", !.cfg = FALSE]
    ELSE IF ConfigDir(fault, "home2") # "nil"
    THEN [base EXCEPT !.err = "HomeDirErr", !.file = NoFile]
    ELSE IF fault = "rmconfig"
    THEN [base EXCEPT !.err = "RemoveConfigErr", !.file = NoFile]
    ELSE [base EXCEPT !.file = NoFile, !.cfg = FALSE, !.hit = FALSE]

\* os.Remove of a path: NotExist when the file is absent
deleteAccessTokenPath(f, c, fault) ==
    LET base == [err |-> "nil", file |-> f, cfg |-> c, hit |-> TRUE]
    IN
    IF ConfigDir(fault, "home") # "nil"
    THEN [base EXCEPT !.err = "HomeDirErr"]
    ELSE IF fault = "rmtoken"
    THEN \* !os.IsNotExist(err): "error removing access token file"
         [base EXCEPT !.err = "RemoveTokenErr"]
    ELSE IF ConfigDir(fault, "home2") # "nil"
    THEN [base EXCEPT !.err = "HomeDirErr", !.file = NoFile]
    ELSE IF fault = "rmconfig"
    THEN [base EXCEPT !.err = "RemoveConfigErr", !.file = NoFile]
    ELSE [base EXCEPT !.file = NoFile, !.cfg = FALSE, !.hit = FALSE]

----------------------------------------------------------------------------
(* The keyring and the operations over both stores *)

\* keyring.Open: a ring, or (nil, ErrNoAvailImpl), or (nil, another error)
openKeyring(be) ==
    IF be = "available" THEN [ring |-> TRUE, err |-> "nil"]
    ELSE IF be = "unavailable" THEN [ring |-> FALSE, err |-> "ErrNoAvailImpl"]
    ELSE [ring |-> FALSE, err |-> "OpenErr"]

\* ring.Set(keyring.Item{Key: keyringKey, Data: data})
ringSet(r, data, fault) ==
    IF fault = "set" THEN [err |-> "SetErr", ring |-> r]
    ELSE [err |-> "nil", ring |-> Item(data)]

\* ring.Get(keyringKey)
ringGet(r, fault) ==
    IF fault = "get" THEN [err |-> "GetErr", data |-> <<>>]
    ELSE IF ~r.has THEN [err |-> "ErrKeyNotFound", data |-> <<>>]
    ELSE [err |-> "nil", data |-> r.data]

\* ring.Remove(keyringKey)
ringRemove(r, fault) ==
    IF fault = "remove" THEN [err |-> "RemoveErr", ring |-> r]
    ELSE IF ~r.has THEN [err |-> "ErrKeyNotFound", ring |-> r]
    ELSE [err |-> "nil", ring |-> NoItem]

\* what an operation returns and leaves; the outcome is "ok" (nil error),
\* "error" (an error value), "panic" (nil ring used) or "fatal" (log.Fatal)
Result(tok, err, path, hit, r, f) ==
    [tok |-> tok, err |-> err,
     outcome |-> IF err = "nil" THEN "ok" ELSE "error",
     path |-> path, hit |-> hit,
     chmod |-> "none", statMode |-> {}, readMode |-> {},
     ring |-> r, file |-> f]

\* what readAccessTokenPath saw and did, kept with the result
WithFileRead(res, fr) ==
    [res EXCEPT !.chmod = fr.chmod, !.statMode = fr.statMode,
                !.readMode = fr.readMode]

Fatal(res) == [res EXCEPT !.outcome = "fatal", !.tok = <<>>]

\* a method called on the nil keyring.Keyring that a failed Open returned
NilRing(r, f) ==
    [Result(<<>>, "nil", "nil_ring", TRUE, r, f) EXCEPT !.outcome = "panic"]

\* the migration that forgets os.Remove(path)
migrateAccessToken_keepsFile(r, f, accessToken, fault) ==
    LET st == ringSet(r, accessToken, fault)
    IN
    IF st.err # "nil"
    THEN Result(<<>>, st.err, "migrate", TRUE, st.ring, f)
    ELSE Result(accessToken, "nil", "migrate", FALSE, st.ring, f)

migrateAccessToken(r, f, accessToken, fault) ==
    LET st == ringSet(r, accessToken, fault)
    IN
    IF st.err # "nil"
    THEN Result(<<>>, st.err, "migrate", TRUE, st.ring, f)
    ELSE IF ConfigDir(fault, "home2") # "nil"
    THEN Result(<<>>, "HomeDirErr", "migrate", TRUE, st.ring, f)
    ELSE IF fault = "rmtoken"
    THEN Result(<<>>, "RemoveTokenErr", "migrate", TRUE, st.ring, f)
    ELSE Result(accessToken, "nil", "migrate", FALSE, st.ring, NoFile)

\* the read that migrates whatever it read, an empty file included
readAccessToken_migratesEmpty(be, r, f, fault, chmodFails) ==
    LET o == openKeyring(be)
    IN
    IF o.err = "ErrNoAvailImpl"
    THEN LET fr == readAccessTokenPath(f, fault, chmodFails)
             res == WithFileRead(
                        Result(fr.tok, fr.err, "file_only", fr.hit, r, fr.file), fr)
         IN IF fr.fatal THEN Fatal(res) ELSE res
    ELSE IF ~o.ring
    THEN NilRing(r, f)
    ELSE
        LET g == ringGet(r, fault)
        IN
        IF g.err = "nil"
        THEN Result(g.data, "nil", "get_found", FALSE, r, f)
        ELSE IF g.err = "ErrKeyNotFound"
        THEN LET fr == readAccessTokenPath(f, fault, chmodFails)
             IN
             IF fr.fatal
             THEN Fatal(WithFileRead(
                      Result(<<>>, fr.err, "get_notfound", TRUE, r, fr.file), fr))
             ELSE IF fr.err = "nil"
             THEN WithFileRead(migrateAccessToken(r, fr.file, fr.tok, fault), fr)
             ELSE WithFileRead(
                      Result(<<>>, "nil", "get_notfound", fr.hit, r, fr.file), fr)
        ELSE Result(<<>>, g.err, "get_error", TRUE, r, f)

\* the read that asks the fallback file before the keyring
readAccessToken_fileFirst(be, r, f, fault, chmodFails) ==
    LET o == openKeyring(be)
        fr == readAccessTokenPath(f, fault, chmodFails)
        res == WithFileRead(
                   Result(fr.tok, fr.err, "file_only", fr.hit, r, fr.file), fr)
    IN
    IF o.err = "ErrNoAvailImpl"
    THEN IF fr.fatal THEN Fatal(res) ELSE res
    ELSE IF ~o.ring
    THEN NilRing(r, f)
    ELSE IF ~fr.fatal /\ fr.err = "nil" /\ Len(fr.tok) > 0
    THEN res
    ELSE
        LET g == ringGet(r, fault)
        IN
        IF g.err = "nil"
        THEN Result(g.data, "nil", "get_found", FALSE, r, f)
        ELSE IF g.err = "ErrKeyNotFound"
        THEN WithFileRead(
                 Result(<<>>, "nil", "get_notfound", fr.hit, r, fr.file), fr)
        ELSE Result(<<>>, g.err, "get_error", TRUE, r, f)

readAccessToken(be, r, f, fault, chmodFails) ==
    LET o == openKeyring(be)
    IN
    IF o.err = "ErrNoAvailImpl"
    THEN LET fr == readAccessTokenPath(f, fault, chmodFails)
             res == WithFileRead(
                        Result(fr.tok, fr.err, "file_only", fr.hit, r, fr.file), fr)
         IN IF fr.fatal THEN Fatal(res) ELSE res
    ELSE IF ~o.ring
    THEN NilRing(r, f)
    ELSE
        LET g == ringGet(r, fault)
        IN
        IF g.err = "nil"
        THEN Result(g.data, "nil", "get_found", FALSE, r, f)
        ELSE IF g.err = "ErrKeyNotFound"
        THEN LET fr == readAccessTokenPath(f, fault, chmodFails)
             IN
             IF fr.fatal
             THEN Fatal(WithFileRead(
                      Result(<<>>, fr.err, "get_notfound", TRUE, r, fr.file), fr))
             ELSE IF Len(fr.tok) > 0 /\ fr.err = "nil"
             THEN WithFileRead(migrateAccessToken(r, fr.file, fr.tok, fault), fr)
             ELSE \* the error of readAccessTokenPath is dropped: return "", nil
                  WithFileRead(
                      Result(<<>>, "nil", "get_notfound", fr.hit, r, fr.file), fr)
        ELSE Result(<<>>, g.err, "get_error", TRUE, r, f)

\* the write that takes the file path whatever keyring.Open answered
WriteAccessToken_alwaysFile(be, r, f, d, accessToken, fault, umask, partial) ==
    LET w == writeAccessTokenPath(f, d, accessToken, fault, umask, partial)
    IN [dir |-> w.dir] @@ Result(accessToken, w.err, "file_only", w.hit, r, w.file)

\* the write that also puts the secret into the fallback file
WriteAccessToken_dualWrite(be, r, f, d, accessToken, fault, umask, partial) ==
    LET st == ringSet(r, accessToken, fault)
    IN
    IF be = "available" /\ st.err = "nil" /\ d.exists
    THEN [dir |-> d] @@ Result(accessToken, "nil", "ring", FALSE, st.ring,
                               File(tokenFileMode, accessToken))
    ELSE IF be = "available"
    THEN [dir |-> d] @@ Result(accessToken, st.err, "ring", st.err # "nil", st.ring, f)
    ELSE IF be = "unavailable"
    THEN LET w == writeAccessTokenPath(f, d, accessToken, fault, umask, partial)
         IN [dir |-> w.dir] @@ Result(accessToken, w.err, "file_only", w.hit, r, w.file)
    ELSE [dir |-> d] @@ [NilRing(r, f) EXCEPT !.tok = accessToken]

\* the write that makes sure of the config directory before it opens the keyring
WriteAccessToken_mkdirFirst(be, r, f, d, accessToken, fault, umask, partial) ==
    LET o == openKeyring(be)
        e == IF d.exists THEN d ELSE Dir(AndNot(configDirMode, umask))
    IN
    IF o.err = "ErrNoAvailImpl"
    THEN LET w == writeAccessTokenPath(f, d, accessToken, fault, umask, partial)
         IN [dir |-> w.dir] @@ Result(accessToken, w.err, "file_only", w.hit, r, w.file)
    ELSE IF ~o.ring
    THEN [dir |-> e] @@ [NilRing(r, f) EXCEPT !.tok = accessToken]
    ELSE LET st == ringSet(r, accessToken, fault)
         IN [dir |-> e] @@ Result(accessToken, st.err, "ring", st.err # "nil", st.ring, f)

WriteAccessToken(be, r, f, d, accessToken, fault, umask, partial) ==
    LET o == openKeyring(be)
    IN
    IF o.err = "ErrNoAvailImpl"
    THEN LET w == writeAccessTokenPath(f, d, accessToken, fault, umask, partial)
         IN [dir |-> w.dir] @@ Result(accessToken, w.err, "file_only", w.hit, r, w.file)
    ELSE IF ~o.ring
    THEN [dir |-> d] @@ [NilRing(r, f) EXCEPT !.tok = accessToken]
    ELSE LET st == ringSet(r, accessToken, fault)
         IN [dir |-> d] @@ Result(accessToken, st.err, "ring", st.err # "nil", st.ring, f)

DeleteAccessToken(be, r, f, c, fault) ==
    LET o == openKeyring(be)
    IN
    IF o.err = "ErrNoAvailImpl"
    THEN LET dl == deleteAccessTokenPath(f, c, fault)
         IN [cfg |-> dl.cfg] @@ Result(<<>>, dl.err, "file_only", dl.hit, r, dl.file)
    ELSE IF ~o.ring
    THEN [cfg |-> c] @@ NilRing(r, f)
    ELSE LET rm == ringRemove(r, fault)
         IN [cfg |-> c] @@ Result(<<>>, rm.err, "ring", rm.err = "RemoveErr", rm.ring, f)

\* FileConfig.WriteDefault: Write(DefaultConfigPath()) creates pscale.yml with
\* ioutil.WriteFile, which needs the directory to exist
WriteDefault(d, c, organization, fault) ==
    IF ConfigDir(fault, "home") # "nil" THEN [err |-> "HomeDirErr", cfg |-> c, hit |-> TRUE]
    ELSE IF organization = "" THEN [err |-> "OrganizationErr", cfg |-> c, hit |-> FALSE]
    ELSE IF fault = "write" \/ ~d.exists
    THEN [err |-> "WriteErr", cfg |-> c, hit |-> fault = "write"]
    ELSE [err |-> "nil", cfg |-> TRUE, hit |-> FALSE]

----------------------------------------------------------------------------
(* The state machine *)

\* the directory modes MkdirAll leaves under the umasks
DirModes == {AndNot(configDirMode, u) : u \in Umasks}

Organizations == {"", "acme"}

\* the calls that can fail in an operation, by what keyring.Open answers (a
\* failing call the operation does not reach is filtered by `hit`)
ReadFaults(be) ==
    IF be = "unavailable" THEN {"none", "home", "stat", "read"}
    ELSE IF be = "available"
    THEN {"none", "get", "home", "stat", "read", "set", "home2", "rmtoken"}
    ELSE {"none"}

WriteFaults(be) ==
    IF be = "unavailable"
    THEN {"none", "home", "home2", "statdir", "mkdir", "write", "writeTrunc"}
    ELSE IF be = "available" THEN {"none", "set"}
    ELSE {"none"}

DeleteFaults(be) ==
    IF be = "unavailable" THEN {"none", "home", "home2", "rmtoken", "rmconfig"}
    ELSE IF be = "available" THEN {"none", "remove"}
    ELSE {"none"}

DefaultFaults == {"none", "home", "write"}

\* os.Chmod can only fail where it is called
ChmodFailures(f) == IF f.exists /\ chmodNeeded(f) THEN BOOLEAN ELSE {FALSE}

\* the umask only shows where the directory or the file is created
UmasksSeen(be, f, d) ==
    IF be = "unavailable" /\ (~f.exists \/ ~d.exists) THEN Umasks ELSE {18}

\* the bytes that reached the file when a write failed after the truncation
PartialWrites(fault, accessToken) ==
    IF fault = "writeTrunc" THEN {n \in 0..MaxTokenLen : n < Len(accessToken)} ELSE {0}

\* what `last` keeps of an operation's result
Outcome(op, fault, res) ==
    [op |-> op, tok |-> res.tok, err |-> res.err, outcome |-> res.outcome,
     path |-> res.path, fault |-> fault, chmod |-> res.chmod,
     statMode |-> res.statMode, readMode |-> res.readMode]

NoOutcome(op) ==
    [op |-> op, tok |-> <<>>, err |-> "nil", outcome |-> "ok", path |-> "none",
     fault |-> "none", chmod |-> "none", statMode |-> {}, readMode |-> {}]

NotWritten == [valid |-> FALSE, tok |-> <<>>]

\* any host the CLI can be started on: the token file and pscale.yml live in
\* the config directory
Init ==
    /\ backend \in Backends
    /\ ring \in {NoItem} \cup {Item(t) : t \in Tokens}
    /\ configDir \in {NoDir} \cup {Dir(m) : m \in DirModes}
    /\ tokenFile \in {NoFile} \cup {File(m, t) : m \in Modes, t \in Tokens}
    /\ tokenFile.exists => configDir.exists
    /\ configFile \in BOOLEAN
    /\ configFile => configDir.exists
    /\ last = NoOutcome("none")
    /\ written = NotWritten

\* config.New: the token is read at the start of a command
New ==
    \E fault \in ReadFaults(backend), chmodFails \in ChmodFailures(tokenFile) :
        \E res \in {readAccessToken(backend, ring, tokenFile, fault, chmodFails)} :
            /\ fault # "none" => res.hit
            /\ chmodFails => res.chmod = "failed"
            /\ ring' = res.ring
            /\ tokenFile' = res.file
            /\ last' = Outcome("read", fault, res)
            /\ UNCHANGED <<backend, configDir, configFile, written>>

\* login: WriteAccessToken(accessToken)
Login ==
    \E accessToken \in Tokens, fault \in WriteFaults(backend),
       umask \in UmasksSeen(backend, tokenFile, configDir) :
        \E partial \in PartialWrites(fault, accessToken) :
        \E res \in {WriteAccessToken(backend, ring, tokenFile, configDir,
                                     accessToken, fault, umask, partial)} :
            /\ fault # "none" => res.hit
            /\ ring' = res.ring
            /\ tokenFile' = res.file
            /\ configDir' = res.dir
            /\ last' = Outcome("write", fault, res)
            /\ written' = IF res.outcome = "ok"
                          THEN [valid |-> TRUE, tok |-> accessToken]
                          ELSE NotWritten
            /\ UNCHANGED <<backend, configFile>>

\* logout: DeleteAccessToken()
Logout ==
    \E fault \in DeleteFaults(backend) :
        \E res \in {DeleteAccessToken(backend, ring, tokenFile, configFile, fault)} :
            /\ fault # "none" => res.hit
            /\ ring' = res.ring
            /\ tokenFile' = res.file
            /\ configFile' = res.cfg
            /\ last' = Outcome("delete", fault, res)
            /\ written' = NotWritten
            /\ UNCHANGED <<backend, configDir>>

\* FileConfig.WriteDefault
SaveDefault ==
    \E organization \in Organizations, fault \in DefaultFaults :
        \E res \in {WriteDefault(configDir, configFile, organization, fault)} :
            /\ fault # "none" => res.hit
            /\ configFile' = res.cfg
            /\ last' = [NoOutcome("writeDefault") EXCEPT
                            !.err = res.err, !.fault = fault,
                            !.outcome = IF res.err = "nil" THEN "ok" ELSE "error"]
            /\ UNCHANGED <<backend, ring, tokenFile, configDir, written>>

\* the next invocation runs where keyring.Open answers differently (another
\* session of the same host)
SwitchBackend ==
    \E be \in Backends \ {backend} :
        /\ backend' = be
        /\ last' = NoOutcome("switch")
        /\ written' = NotWritten
        /\ UNCHANGED <<ring, tokenFile, configDir, configFile>>

Next == New \/ Login \/ Logout \/ SaveDefault \/ SwitchBackend

Spec == Init /\ [][Next]_vars

TypeOK ==
    /\ backend \in Backends
    /\ ring \in {NoItem} \cup {Item(t) : t \in Tokens}
    /\ tokenFile \in {NoFile} \cup {File(m, t) : m \in Modes, t \in Tokens}
    /\ configDir \in {NoDir} \cup {Dir(m) : m \in DirModes}
    /\ configFile \in BOOLEAN
    /\ tokenFile.exists => configDir.exists
    /\ configFile => configDir.exists
    /\ last.tok \in Tokens
    /\ written.tok \in Tokens

----------------------------------------------------------------------------
(* Properties *)

ModeHeld == backend \in {"available", "unavailable"}

\* C1: with the backend mode held fixed and no delete since, a read that
\* meets no failing call after a successful WriteAccessToken(S) returns
\* exactly S and no error; after several writes, the last one written.
C1_WriteThenRead ==
    (last.op = "read" /\ written.valid /\ last.fault = "none")
        => /\ ModeHeld
           /\ last.outcome = "ok"
           /\ last.tok = written.tok

\* a read after a write into the fallback file found with a loose mode
C1_Witness ==
    /\ last.op = "read" /\ written.valid /\ last.fault = "none"
    /\ backend = "unavailable"
    /\ last.chmod = "ok"
    /\ Len(last.tok) > 0

\* C2: DeleteAccessToken is idempotent in both backend modes: a delete that
\* follows a delete, or that finds the keyring without the key, returns no
\* error (no call failing otherwise).
C2_DeleteIdempotent ==
    [][(/\ last'.op = "delete" /\ last'.fault = "none"
        /\ ModeHeld
        /\ \/ last.op = "delete"
           \/ backend = "available" /\ ~ring.has)
            => last'.outcome = "ok"]_vars

\* the host a migration starts from: the keyring answers NotFound and the
\* fallback file holds a non-empty secret
MigrationCase ==
    /\ backend = "available"
    /\ ~ring.has
    /\ tokenFile.exists
    /\ Len(tokenFile.data) > 0

\* C3: in the migration case, when no call fails, readAccessToken returns the
\* secret S of the file and no error, the keyring then holds S under the key
\* and the fallback file no longer exists.
C3_Migration ==
    [][(MigrationCase /\ last'.op = "read" /\ last'.fault = "none")
            => /\ last'.outcome = "ok"
               /\ last'.tok = tokenFile.data
               /\ ring' = Item(tokenFile.data)
               /\ ~tokenFile'.exists]_vars

C3_Witness ==
    /\ last.op = "read" /\ last.path = "migrate" /\ last.fault = "none"
    /\ last.outcome = "ok"
    /\ Len(last.tok) > 0
    /\ ring = Item(last.tok)
    /\ ~tokenFile.exists

\* C4: when the Set of a migration fails, readAccessToken still returns the
\* secret S of the file without error, and the file is left with content S.
C4_MigrationAbandoned ==
    (last.op = "read" /\ last.path = "migrate" /\ last.fault = "set")
        => /\ last.outcome = "ok"
           /\ tokenFile.exists
           /\ last.tok = tokenFile.data
           /\ Len(last.tok) > 0

\* C5: when the Set of a migration succeeds and the removal of the fallback
\* file fails, readAccessToken returns the migrated secret and no error.
C5_StaleFileTolerated ==
    (last.op = "read" /\ last.path = "migrate" /\ last.fault = "rmtoken")
        => /\ last.outcome = "ok"
           /\ ring.has
           /\ last.tok = ring.data

\* C6 as stated: right after a successful WriteAccessToken(S) with the keyring
\* available, the fallback file does not contain S.
C6_NoDualAuthority ==
    (last.op = "write" /\ backend = "available" /\ last.outcome = "ok"
        /\ Len(last.tok) > 0)
        => ~(tokenFile.exists /\ tokenFile.data = last.tok)

\* C6, amended: a successful WriteAccessToken(S) with the keyring available
\* leaves the fallback file as it was: the file contains S afterwards only
\* if it contained S before the write.
C6_NoNewDualAuthority ==
    [][(backend = "available" /\ last'.op = "write" /\ last'.outcome = "ok")
            => ((tokenFile'.exists /\ tokenFile'.data = last'.tok)
                    => (tokenFile.exists /\ tokenFile.data = last'.tok))]_vars

\* a keyring write next to a fallback file that holds another secret
C6_Witness ==
    /\ last.op = "write" /\ backend = "available" /\ last.outcome = "ok"
    /\ Len(last.tok) > 0
    /\ ring = Item(last.tok)
    /\ tokenFile.exists
    /\ tokenFile.data # last.tok

\* C7: in file-only mode a read of an absent fallback file returns the empty
\* token and no error.
C7_AbsentFileIsNoCredential ==
    (last.op = "read" /\ backend = "unavailable" /\ last.fault = "none"
        /\ ~tokenFile.exists)
        => /\ last.outcome = "ok"
           /\ last.tok = <<>>

\* C8: a keyring failure other than ErrNoAvailImpl and ErrKeyNotFound, from
\* Open, Get, Set or Remove, comes back from the three operations as an
\* error value: no success, no file fallback, no panic, no exit.
C8_KeyringErrorsReturned ==
    (/\ last.op \in {"read", "write", "delete"}
     /\ \/ backend = "broken"
        \/ last.fault \in {"get", "set", "remove"})
        => /\ last.outcome = "error"
           /\ last.err \in {"OpenErr", "GetErr", "SetErr", "RemoveErr"}
           /\ last.path # "file_only"

\* C9: a read that finds the fallback file with a mode other than 0600, and
\* whose mode change does not fail, reads the content with the mode at
\* exactly 0600 and returns the content the file keeps.
C9_PermissionSelfHealing ==
    (/\ last.op = "read"
     /\ last.statMode # {} /\ last.statMode # {tokenFileMode}
     /\ last.chmod # "failed"
     /\ last.readMode # {})
        => /\ last.readMode = {tokenFileMode}
           /\ (last.outcome = "ok" /\ tokenFile.exists) => last.tok = tokenFile.data

\* C10: in BackendUnavailable mode, after a successful WriteAccessToken(S) the
\* fallback file exists with mode exactly 0600 and content S, in its directory.
C10_FileWrittenRestrictive ==
    (last.op = "write" /\ backend = "unavailable" /\ last.outcome = "ok")
        => /\ configDir.exists
           /\ tokenFile = File(tokenFileMode, last.tok)

\* C11: with the keyring available, a DeleteAccessToken in which every step
\* succeeds removes the credential from both stores: afterwards neither the
\* keyring nor the fallback file holds one.
C11_DeleteClearsBothStores ==
    (last.op = "delete" /\ backend = "available" /\ last.outcome = "ok")
        => /\ ~ring.has
           /\ ~(tokenFile.exists /\ Len(tokenFile.data) > 0)

\* the host of a read that finds no credential: the keyring answers NotFound
\* and the fallback file is absent or empty
NoCredentialCase ==
    /\ backend = "available"
    /\ ~ring.has
    /\ ~tokenFile.exists \/ tokenFile.data = <<>>

\* C12 as stated: in the no-credential case a read that meets no failing call
\* returns the empty token and no error, migrates nothing and leaves both the
\* keyring and the fallback file unchanged.
C12_NoCredentialUnchanged ==
    [][(NoCredentialCase /\ last'.op = "read" /\ last'.fault = "none")
            => /\ last'.outcome = "ok"
               /\ last'.tok = <<>>
               /\ ring' = ring
               /\ tokenFile' = tokenFile]_vars

\* C12, amended: the same, except that an empty fallback file found with a
\* permission bit outside 0600 has its mode set to 0600 (when the chmod does
\* not fail); its existence and content are unchanged.
C12_NoCredentialContentUnchanged ==
    [][(NoCredentialCase /\ last'.op = "read" /\ last'.fault = "none")
            => /\ last'.outcome = "ok"
               /\ last'.tok = <<>>
               /\ ring' = ring
               /\ tokenFile'.exists = tokenFile.exists
               /\ tokenFile'.data = tokenFile.data
               /\ \/ tokenFile'.mode = tokenFile.mode
                  \/ /\ chmodNeeded(tokenFile)
                     /\ last'.chmod = "ok"
                     /\ tokenFile'.mode = tokenFileMode]_vars

\* a no-credential read of an empty file whose mode was corrected
C12_Witness ==
    /\ last.op = "read" /\ last.path = "get_notfound" /\ last.fault = "none"
    /\ last.outcome = "ok" /\ last.tok = <<>>
    /\ backend = "available" /\ ~ring.has
    /\ tokenFile = File(tokenFileMode, <<>>)
    /\ last.chmod = "ok"

\* C13: whenever the keyring is available and holds V under the key, a read
\* whose Get does not fail returns V and no error whatever the fallback file
\* is (absent, empty, another token), and leaves both the keyring and the
\* fallback file as they were.
C13_KeyringPrecedence ==
    [][(backend = "available" /\ ring.has
            /\ last'.op = "read" /\ last'.fault = "none")
            => /\ last'.outcome = "ok"
               /\ last'.tok = ring.data
               /\ ring' = ring
               /\ tokenFile' = tokenFile]_vars

\* a read answered by the keyring beside a fallback file that holds another
\* token with a loose mode
C13_Witness ==
    /\ last.op = "read" /\ last.path = "get_found" /\ last.fault = "none"
    /\ backend = "available"
    /\ ring = Item(last.tok)
    /\ tokenFile.exists
    /\ Len(tokenFile.data) > 0
    /\ tokenFile.data # last.tok
    /\ chmodNeeded(tokenFile)

\* C14: a WriteAccessToken run with the keyring available leaves the fallback
\* file and the config directory as they were, whether the Set succeeds or
\* fails; a WriteAccessToken run in BackendUnavailable mode leaves the keyring
\* as it was.
C14_NoDualWrite ==
    [][(last'.op = "write")
            => /\ backend = "available"
                    => (tokenFile' = tokenFile /\ configDir' = configDir)
               /\ backend = "unavailable" => ring' = ring]_vars

\* a keyring write on a host without config directory, the keyring changed
C14_Witness ==
    /\ last.op = "write" /\ backend = "available" /\ last.outcome = "ok"
    /\ Len(last.tok) > 0
    /\ ring = Item(last.tok)
    /\ ~configDir.exists
    /\ ~tokenFile.exists

\* C15: a stat or a read of the fallback file that fails with an I/O error
\* (not absence) comes back from readAccessToken as an error value: it is not
\* "no credential" and the process is not ended.
C15_FileErrorsReturned ==
    (last.op = "read" /\ last.fault \in {"stat", "read"})
        => last.outcome = "error"

\* C16: in BackendUnavailable mode a DeleteAccessToken that returns no error
\* leaves neither the token file nor pscale.yml, whichever existed; absence of
\* either is no error; when the removal of the token file fails otherwise, the
\* error is returned and pscale.yml is as it was.
C16_FileDelete ==
    [][(backend = "unavailable" /\ last'.op = "delete")
            => /\ last'.outcome = "ok" => (~tokenFile'.exists /\ ~configFile')
               /\ last'.fault = "none" => last'.outcome = "ok"
               /\ last'.fault = "rmtoken"
                    => (last'.outcome = "error" /\ configFile' = configFile)]_vars

\* a delete whose token file removal failed, pscale.yml still there
C16_Witness ==
    /\ last.op = "delete" /\ backend = "unavailable"
    /\ last.fault = "rmtoken" /\ last.outcome = "error"
    /\ tokenFile.exists
    /\ configFile

\* C17: when the fallback file needs a mode change and os.Chmod fails, the
\* read goes on: the content is read, with the mode as found, and returned
\* (no other call failing).
C17_ChmodFailureIgnored ==
    [][(last'.op = "read" /\ last'.chmod = "failed" /\ last'.fault = "none")
            => /\ last'.outcome = "ok"
               /\ last'.tok = tokenFile.data
               /\ last'.statMode = {tokenFile.mode}
               /\ last'.readMode = {tokenFile.mode}]_vars

\* a file-only read of a 0644 file whose chmod failed
C17_Witness ==
    /\ last.op = "read" /\ last.chmod = "failed" /\ last.fault = "none"
    /\ last.outcome = "ok"
    /\ Len(last.tok) > 0
    /\ tokenFile.exists
    /\ tokenFile.data = last.tok
    /\ chmodNeeded(tokenFile)

====
